---- MODULE Spec2Model ----
(***************************************************************************)
(* Model of todo-rs: a command-line task tracker.  Every invocation of the *)
(* program is  load (deserialize_tasks) -> one operation -> save           *)
(* (serialize_tasks, mutations only) -> exit.  The storage file holds a    *)
(* JSON array of task objects; identifiers are not stored, vec_to_map      *)
(* derives them from the position at every load.                           *)
(*                                                                         *)
(* The file content is modelled as a sequence of JSON tokens, so that      *)
(* serialization and parsing are two different computations and content    *)
(* that is truncated or otherwise malformed can be represented.            *)
(***************************************************************************)
EXTENDS Integers, Sequences, FiniteSets, TLC

\* ------------------------------------------------------------------ bounds
MaxTasks == 2       \* add is not invoked on storage holding MaxTasks records
MaxInstant == 3     \* Instant::now() returns a tick in 0..MaxInstant
TicksPerMilli == 2  \* resolution of Instant relative to the stored milliseconds
MaxInitTasks == 2   \* records in the initial content of SpecStorage

\* ------------------------------------------------------------ task.rs
PENDING == " "
COMPLETED == "v"    \* the check mark U+2713 of task.rs, written in ASCII
OtherStatus == "x"  \* some char that is neither PENDING nor COMPLETED

Descriptions == {"buy milk", "write spec"}
Instants == 0..MaxInstant

\* struct Task { time: Instant, description: String, status: char }
Task(time, description, status) ==
    [time |-> time, description |-> description, status |-> status]

\* Task::new
Task_new(description, now) == Task(now, description, PENDING)

\* Task::complete as a toggle: a completed task goes back to pending
Task_complete_toggle(task) ==
    [task EXCEPT !.status = IF @ = COMPLETED THEN PENDING ELSE COMPLETED]

\* Task::complete writing a char that is not the COMPLETED constant
Task_complete_other(task) == [task EXCEPT !.status = OtherStatus]

\* Task::complete
Task_complete(task) == [task EXCEPT !.status = COMPLETED]

\* ------------------------------------------------- JSON token sequences
Tok(k, s, n) == [k |-> k, s |-> s, n |-> n]
LBracket == Tok("[", "", 0)
RBracket == Tok("]", "", 0)
Comma == Tok(",", "", 0)
LBrace == Tok("{", "", 0)
RBrace == Tok("}", "", 0)
TimeField(ms) == Tok("time", "", ms)
DescriptionField(d) == Tok("description", d, 0)
StatusField(c) == Tok("status", c, 0)
FieldNames == {"time", "description", "status"}

\* serde_millis, Instant -> milliseconds: the stored number is the instant
\* rendered on the wall clock, truncated to whole milliseconds.
InstantToMillis(t) == t \div TicksPerMilli

\* serde_millis, milliseconds -> Instant: an Instant has no epoch, so it is
\* rebuilt relative to Instant::now() and SystemTime::now() read at load time.
\* j is the error of that reading, in ticks: none, or one tick early (the
\* stored count never goes below the epoch).
Jitter(ms) == IF ms > 0 THEN {-1, 0} ELSE {0}
MillisToInstant(ms, j) == ms * TicksPerMilli + j

\* #[derive(Serialize)] for Task: one JSON object, fields in declaration order
TaskToJson(task) ==
    << LBrace, TimeField(InstantToMillis(task.time)),
       DescriptionField(task.description), StatusField(task.status), RBrace >>

\* serde_json::to_writer(&Vec<Task>): "[" elements separated by "," "]"
RECURSIVE ElementsToJson(_)
ElementsToJson(tasks) ==
    IF Len(tasks) = 0 THEN << >>
    ELSE IF Len(tasks) = 1 THEN TaskToJson(tasks[1])
    ELSE TaskToJson(tasks[1]) \o << Comma >> \o ElementsToJson(Tail(tasks))

VecToJson(tasks) == << LBracket >> \o ElementsToJson(tasks) \o << RBracket >>

\* ----------------------------------------------------- serde_json parser
\* A parse result: kind "ok" (value, next = index after it), "eof" (the input
\* ended inside a value: serde_json's Category::Eof) or "err" (any other
\* serde_json error: syntax or data).
POk(value, next) == [kind |-> "ok", value |-> value, next |-> next]
PEof == [kind |-> "eof", value |-> << >>, next |-> 0]
PErr == [kind |-> "err", value |-> << >>, next |-> 0]

NoFields == [f \in FieldNames |-> << >>]

\* The fields of one object, from index i on, up to its closing brace.
\* seen[f] holds the token of field f once it has been read.
RECURSIVE ParseFields(_, _, _)
ParseFields(c, i, seen) ==
    IF i > Len(c) THEN PEof
    ELSE IF c[i] = RBrace
         THEN IF \A f \in FieldNames : seen[f] # << >>
              THEN POk(<< [time |-> seen["time"][1].n,
                           description |-> seen["description"][1].s,
                           status |-> seen["status"][1].s] >>, i + 1)
              ELSE PErr                       \* missing field
    ELSE IF c[i].k \in FieldNames
         THEN IF seen[c[i].k] # << >>
              THEN PErr                       \* duplicate field
              ELSE ParseFields(c, i + 1, [seen EXCEPT ![c[i].k] = << c[i] >>])
    ELSE PErr                                 \* expected a key or "}"

\* One element of the array: a Task.
ParseTask(c, i) ==
    IF i > Len(c) THEN PEof
    ELSE IF c[i] = LBrace THEN ParseFields(c, i + 1, NoFields)
    ELSE IF c[i] = LBracket
         THEN IF i + 1 > Len(c) THEN PEof     \* a struct written as a sequence
              ELSE PErr
    ELSE PErr

\* The elements of the array from index i on; first says whether an element
\* or "]" may come (after "[") or an element must come (after ",").
RECURSIVE ParseElements(_, _, _, _)
ParseElements(c, i, acc, first) ==
    IF i > Len(c) THEN PEof
    ELSE IF first /\ c[i] = RBracket THEN POk(acc, i + 1)
    ELSE LET e == ParseTask(c, i) IN
         IF e.kind # "ok" THEN e
         ELSE IF e.next > Len(c) THEN PEof
         ELSE IF c[e.next] = RBracket THEN POk(acc \o e.value, e.next + 1)
         ELSE IF c[e.next] = Comma
              THEN ParseElements(c, e.next + 1, acc \o e.value, FALSE)
         ELSE PErr

\* serde_json::from_reader::<Vec<Task>>: the array, then end of input.
from_reader(c) ==
    IF Len(c) = 0 THEN PEof
    ELSE IF c[1] # LBracket THEN PErr
    ELSE LET r == ParseElements(c, 2, << >>, TRUE) IN
         IF r.kind # "ok" THEN r
         ELSE IF r.next <= Len(c) THEN PErr   \* trailing characters
         ELSE r

\* ------------------------------------------------------------ BTreeMap
EmptyMap == << >>

\* BTreeMap::insert: the value at key is replaced when the key is present
insert(map, key, value) ==
    [k \in DOMAIN map \cup {key} |-> IF k = key THEN value ELSE map[k]]

\* BTreeMap::remove: nothing happens when the key is absent
remove(map, key) == [k \in DOMAIN map \ {key} |-> map[k]]

MinKey(map) == CHOOSE k \in DOMAIN map : \A m \in DOMAIN map : k <= m

MaxKey(map) == CHOOSE k \in DOMAIN map : \A m \in DOMAIN map : k >= m

\* the values collected in descending key order
RECURSIVE values_descending(_)
values_descending(map) ==
    IF DOMAIN map = {} THEN << >>
    ELSE << map[MaxKey(map)] >> \o values_descending(remove(map, MaxKey(map)))

\* BTreeMap::values().cloned().collect(): the values in ascending key order
RECURSIVE values(_)
values(map) ==
    IF DOMAIN map = {} THEN << >>
    ELSE << map[MinKey(map)] >> \o values(remove(map, MinKey(map)))

\* ------------------------------------------------------------- main.rs
\* The storage file: whether it exists, and its content when it does.
NoFile == [exists |-> FALSE, content |-> << >>]
FileOf(content) == [exists |-> TRUE, content |-> content]

\* vec_to_map counting from 0
vec_to_map_from_zero(tasks) == [i \in 0..(Len(tasks) - 1) |-> tasks[i + 1]]

\* vec_to_map counting down: the first record gets the highest identifier
vec_to_map_reversed(tasks) ==
    [i \in 1..Len(tasks) |-> tasks[Len(tasks) + 1 - i]]

\* vec_to_map: identifiers 1, 2, ... in sequence order
vec_to_map(tasks) == [i \in 1..Len(tasks) |-> tasks[i]]

\* The Vec<Task> that serde builds from the parsed objects: every stored
\* millisecond count becomes an Instant, j[i] being the clock error at record i.
ToTasks(parsed, j) ==
    [i \in 1..Len(parsed) |->
        Task(MillisToInstant(parsed[i].time, j[i]),
             parsed[i].description, parsed[i].status)]

\* The clock errors possible while reading the records of content c.
JitterChoices(c) ==
    LET parsed == from_reader(c).value IN
    {j \in [1..Len(parsed) -> {-1, 0}] :
        \A i \in 1..Len(parsed) : j[i] \in Jitter(parsed[i].time)}

\* OpenOptions read+write+create: a missing file is created empty, an
\* existing one is left as it is.
Open(f) == IF f.exists THEN f ELSE FileOf(<< >>)

\* deserialize_tasks without the is_eof arm: every parse error panics
deserialize_tasks_strict(f, j) ==
    LET r == from_reader(Open(f).content) IN
    CASE r.kind = "ok"  -> [kind |-> "ok", tasks |-> vec_to_map(ToTasks(r.value, j))]
      [] OTHER          -> [kind |-> "panic", tasks |-> EmptyMap]

\* deserialize_tasks: Ok(map) | Ok(empty map) on an end-of-input error | panic
deserialize_tasks(f, j) ==
    LET r == from_reader(Open(f).content) IN
    CASE r.kind = "ok"  -> [kind |-> "ok", tasks |-> vec_to_map(ToTasks(r.value, j))]
      [] r.kind = "eof" -> [kind |-> "ok", tasks |-> EmptyMap]
      [] OTHER          -> [kind |-> "panic", tasks |-> EmptyMap]

\* serialize_tasks that leaves the array unterminated
serialize_tasks_unterminated(tasks) ==
    FileOf(<< LBracket >> \o ElementsToJson(tasks))

\* serialize_tasks: File::create truncates the file, to_writer writes the array
serialize_tasks(tasks) == FileOf(VecToJson(tasks))

\* What one run of the program leaves behind.
Result(outcome, message, f, tasks, out, saved) ==
    [outcome |-> outcome, message |-> message, file |-> f, tasks |-> tasks,
     stdout |-> out, saved |-> saved]

\* add_task with the key one too low: the last record is overwritten
add_task_overwrite(description, tasks, f, now) ==
    LET key == Cardinality(DOMAIN tasks)
        t2 == insert(tasks, key, Task_new(description, now))
    IN Result("ok", "", serialize_tasks(values(t2)), t2, << >>, TRUE)

\* add_task inserting below every key: the new record comes first
add_task_front(description, tasks, f, now) ==
    LET t2 == insert(tasks, 0, Task_new(description, now))
    IN Result("ok", "", serialize_tasks(values(t2)), t2, << >>, TRUE)

\* add_task; f is the file as load left it, now is Instant::now()
add_task(description, tasks, f, now) ==
    LET key == Cardinality(DOMAIN tasks) + 1
        t2 == insert(tasks, key, Task_new(description, now))
    IN Result("ok", "", serialize_tasks(values(t2)), t2, << >>, TRUE)

\* remove_task that fails on an absent identifier, as complete_task does
remove_task_strict(id, tasks, f) ==
    IF id \notin DOMAIN tasks
    THEN Result("panic", "Task not found", f, tasks, << >>, FALSE)
    ELSE LET t2 == remove(tasks, id)
         IN Result("ok", "", serialize_tasks(values(t2)), t2, << >>, TRUE)

\* remove_task taking the identifier as a 0-based position
remove_task_zero_based(id, tasks, f) ==
    LET t2 == remove(tasks, id + 1)
    IN Result("ok", "", serialize_tasks(values(t2)), t2, << >>, TRUE)

\* remove_task
remove_task(id, tasks, f) ==
    LET t2 == remove(tasks, id)
    IN Result("ok", "", serialize_tasks(values(t2)), t2, << >>, TRUE)

\* complete_task that skips an absent identifier silently, as remove_task does
complete_task_silent(id, tasks, f) ==
    LET t2 == IF id \in DOMAIN tasks
              THEN insert(tasks, id, Task_complete(tasks[id])) ELSE tasks
    IN Result("ok", "", serialize_tasks(values(t2)), t2, << >>, TRUE)

\* complete_task that refuses a task that is completed already
complete_task_once(id, tasks, f) ==
    IF id \notin DOMAIN tasks
    THEN Result("panic", "Task not found", f, tasks, << >>, FALSE)
    ELSE IF tasks[id].status = COMPLETED
    THEN Result("panic", "Task already completed", f, tasks, << >>, FALSE)
    ELSE LET t2 == insert(tasks, id, Task_complete(tasks[id]))
         IN Result("ok", "", serialize_tasks(values(t2)), t2, << >>, TRUE)

\* complete_task; f is the file as load left it
complete_task(id, tasks, f) ==
    IF id \notin DOMAIN tasks
    THEN Result("panic", "Task not found", f, tasks, << >>, FALSE)
    ELSE LET t2 == insert(tasks, id, Task_complete(tasks[id]))
         IN Result("ok", "", serialize_tasks(values(t2)), t2, << >>, TRUE)

\* Filter, and filter.to_string().to_lowercase()
Filters == {"None", "Pending", "Completed"}
FilterName(filter) ==
    CASE filter = "None" -> "none"
      [] filter = "Pending" -> "pending"
      [] filter = "Completed" -> "completed"

\* header.len() for "Task (filter: <name>)"
HeaderLen(filter) ==
    CASE filter = "None" -> 19
      [] filter = "Pending" -> 22
      [] filter = "Completed" -> 24

\* One printed line: the format string and its arguments.
Line(fmt, id, description, status) ==
    [fmt |-> fmt, id |-> id, description |-> description, status |-> status]
HeaderLine(filter) == Line("Task (filter: {})", 0, FilterName(filter), "")
RuleLine(filter) == Line("rule", HeaderLen(filter), "", "")
TaskLine(id, task) == Line("{} - {} [{}]", id, task.description, task.status)

\* the closure with the two status filters swapped
Matches_swapped(filter, task) ==
    CASE filter = "Completed" -> task.status = PENDING
      [] filter = "Pending" -> task.status = COMPLETED
      [] filter = "None" -> TRUE

\* the closure given to filter() in print_tasks
Matches(filter, task) ==
    CASE filter = "Completed" -> task.status = COMPLETED
      [] filter = "Pending" -> task.status = PENDING
      [] filter = "None" -> TRUE

\* the lines numbered by their position in the output, not by their key
RECURSIVE Renumbered(_, _, _)
Renumbered(tasks, filter, n) ==
    IF DOMAIN tasks = {} THEN << >>
    ELSE LET k == MinKey(tasks) IN
         IF (filter = "None" \/ (filter = "Pending" /\ tasks[k].status = PENDING)
             \/ (filter = "Completed" /\ tasks[k].status = COMPLETED))
         THEN << Line("{} - {} [{}]", n, tasks[k].description, tasks[k].status) >>
              \o Renumbered(remove(tasks, k), filter, n + 1)
         ELSE Renumbered(remove(tasks, k), filter, n)
TaskLines_renumbered(tasks, filter) == Renumbered(tasks, filter, 1)

\* tasks.iter().filter(..).for_each(println): ascending key order
RECURSIVE TaskLines(_, _)
TaskLines(tasks, filter) ==
    IF DOMAIN tasks = {} THEN << >>
    ELSE LET k == MinKey(tasks) IN
         (IF Matches(filter, tasks[k]) THEN << TaskLine(k, tasks[k]) >> ELSE << >>)
         \o TaskLines(remove(tasks, k), filter)

\* print_tasks that also saves the store it printed
print_tasks_saving(tasks, filter, f) ==
    Result("ok", "", serialize_tasks(values(tasks)), tasks,
           << HeaderLine(filter), RuleLine(filter) >> \o TaskLines(tasks, filter),
           TRUE)

\* print_tasks; f is the file as load left it
print_tasks(tasks, filter, f) ==
    Result("ok", "", f, tasks,
           << HeaderLine(filter), RuleLine(filter) >> \o TaskLines(tasks, filter),
           FALSE)

\* Opt: the parsed command line
Opt(operation, id, description, filter) ==
    [operation |-> operation, id |-> id, description |-> description,
     filter |-> filter]

\* main: load, dispatch, exit
main(f, o, now, j) ==
    LET loaded == deserialize_tasks(f, j) IN
    IF loaded.kind = "panic"
    THEN Result("panic", "An error occurred", Open(f), EmptyMap, << >>, FALSE)
    ELSE CASE o.operation = "add" -> add_task(o.description, loaded.tasks, Open(f), now)
           [] o.operation = "remove" -> remove_task(o.id, loaded.tasks, Open(f))
           [] o.operation = "complete" -> complete_task(o.id, loaded.tasks, Open(f))
           [] o.operation = "list" -> print_tasks(loaded.tasks, o.filter, Open(f))

\* --------------------------------------------------------- state machine
VARIABLES
    file,     \* the storage file
    before,   \* the storage file when the last run started
    opt,      \* the command line of the last run
    outcome,  \* "none" before the first run, then "ok" (exit 0) or "panic"
    message,  \* the panic message of the last run
    stdout,   \* the lines the last run printed
    saved,    \* whether the last run called serialize_tasks
    tasks,    \* the BTreeMap of the last run when it ended
    adds,     \* the descriptions added so far, while storage started empty
              \* and every mutation was an add
    loaded,   \* the BTreeMap of the last run as load built it
    scenario, \* how many steps of ScenarioSteps the runs so far have followed,
              \* from empty storage; OffScenario once they left it
    procs     \* the invocations that run concurrently in SpecRace

vars == << file, before, opt, outcome, message, stdout, saved, tasks, adds,
           loaded, scenario, procs >>

Ids == 0..(MaxTasks + 1)
NoOpt == Opt("none", 0, "", "None")

\* Two invocations started at about the same time on the same path.
Procs == {1, 2}

\* An invocation of SpecRace: where it is in main (pc), its command line, the
\* content it is about to write, and what the file held when it loaded.
Proc(pc, o, pending, base) ==
    [pc |-> pc, opt |-> o, pending |-> pending, base |-> base]
Idle == Proc("start", NoOpt, << >>, << >>)

\* The records in content c, as far as from_reader accepts it.
Stored(c) == from_reader(c).value

NoAdds == [pure |-> FALSE, seq |-> << >>]

\* The runs of the scenario of spec section 8, in order.
ScenarioSteps ==
    << Opt("add", 0, "buy milk", "None"),
       Opt("add", 0, "write spec", "None"),
       Opt("complete", 1, "", "None"),
       Opt("remove", 1, "", "None"),
       Opt("list", 0, "", "Pending") >>
OffScenario == 0 - 1

\* One run of the program with command line o.
Run(o, now, j) ==
    \E r \in {main(file, o, now, j)} :
        /\ file' = r.file
        /\ before' = file
        /\ opt' = o
        /\ outcome' = r.outcome
        /\ message' = r.message
        /\ stdout' = r.stdout
        /\ saved' = r.saved
        /\ tasks' = r.tasks
        /\ loaded' = deserialize_tasks(file, j).tasks
        /\ scenario' = IF /\ scenario \in 0..(Len(ScenarioSteps) - 1)
                          /\ o = ScenarioSteps[scenario + 1]
                       THEN scenario + 1 ELSE OffScenario
        /\ UNCHANGED procs
        /\ adds' = CASE o.operation = "list" -> adds
                     [] o.operation = "add" /\ adds.pure /\ r.outcome = "ok" ->
                            [adds EXCEPT !.seq = Append(@, o.description)]
                     [] OTHER -> NoAdds

Add ==
    /\ Len(Stored(file.content)) < MaxTasks
    /\ \E d \in Descriptions, now \in Instants, j \in JitterChoices(file.content) :
          Run(Opt("add", 0, d, "None"), now, j)

Remove ==
    \E id \in Ids, j \in JitterChoices(file.content) :
        Run(Opt("remove", id, "", "None"), 0, j)

Complete ==
    \E id \in Ids, j \in JitterChoices(file.content) :
        Run(Opt("complete", id, "", "None"), 0, j)

List ==
    \E filter \in Filters, j \in JitterChoices(file.content) :
        Run(Opt("list", 0, "", filter), 0, j)

Next == Add \/ Remove \/ Complete \/ List

InitGhosts ==
    /\ before = file
    /\ opt = NoOpt
    /\ outcome = "none"
    /\ message = ""
    /\ stdout = << >>
    /\ saved = FALSE
    /\ tasks = EmptyMap
    /\ adds = [pure |-> file.content = << >>, seq |-> << >>]
    /\ loaded = EmptyMap
    /\ scenario = IF file.content = << >> THEN 0 ELSE OffScenario
    /\ procs = [p \in Procs |-> Idle]

\* Storage that does not exist yet, or exists and is empty.
Init ==
    /\ file \in {NoFile, FileOf(<< >>)}
    /\ InitGhosts

Spec == Init /\ [][Next]_vars

\* ------------------------------------------- storage with any content
InitTasks ==
    {Task(MaxInstant, "buy milk", s) : s \in {PENDING, COMPLETED, OtherStatus}}

RECURSIVE SeqsUpTo(_, _)
SeqsUpTo(S, n) ==
    IF n = 0 THEN {<< >>}
    ELSE SeqsUpTo(S, n - 1) \cup
         {Append(q, x) : q \in {q \in SeqsUpTo(S, n - 1) : Len(q) = n - 1}, x \in S}

WellFormed == {VecToJson(v) : v \in SeqsUpTo(InitTasks, MaxInitTasks)}

\* content cut off before its end
Truncated ==
    UNION {{SubSeq(c, 1, n) : n \in 1..(Len(c) - 1)} : c \in WellFormed} \ WellFormed

\* content with one token missing, or with one token too many
Garbled ==
    (UNION {{SubSeq(c, 1, n - 1) \o SubSeq(c, n + 1, Len(c)) : n \in 1..Len(c)} :
               c \in WellFormed}
     \cup {c \o << t >> : c \in WellFormed, t \in {RBracket, Comma, LBrace}})
    \ (WellFormed \cup {<< >>})

InitStorage ==
    /\ file \in {NoFile} \cup {FileOf(c) : c \in WellFormed \cup Truncated \cup Garbled}
    /\ InitGhosts

SpecStorage == InitStorage /\ [][Next]_vars

\* ---------------------------------------- two invocations on one path
\* SpecRace runs the invocations of Procs interleaved.  An invocation takes
\* three steps on the file: the load (with the operation, which works on the
\* store in memory), File::create, which truncates, and to_writer, which
\* writes the array.  Nothing locks the file between them.

\* The command lines of the racing invocations.
RaceOpts ==
    {Opt("add", 0, d, "None") : d \in Descriptions}
    \cup {Opt("remove", 1, "", "None"), Opt("complete", 1, "", "None"),
          Opt("list", 0, "", "None")}

\* a write that lands behind what the file holds, as with O_APPEND
WriteAt_append(old, new) == old \o new

\* to_writer on the handle File::create returned: the bytes go to offset 0 and
\* replace what is there; what the file holds beyond them stays.
WriteAt(old, new) == new \o SubSeq(old, Len(new) + 1, Len(old))

\* deserialize_tasks and the operation, up to the call of serialize_tasks
RaceLoad(p) ==
    /\ procs[p].pc = "start"
    /\ \E o \in RaceOpts, now \in Instants, j \in JitterChoices(file.content) :
          /\ o.operation = "add" => Len(Stored(file.content)) < MaxTasks
          /\ \E r \in {main(file, o, now, j)} :
                /\ file' = Open(file)
                /\ procs' = [procs EXCEPT ![p] =
                       IF r.saved
                       THEN Proc("loaded", o, r.file.content, Open(file).content)
                       ELSE Proc(IF r.outcome = "ok" THEN "done" ELSE "panicked",
                                 o, << >>, Open(file).content)]
    /\ UNCHANGED << before, opt, outcome, message, stdout, saved, tasks, adds,
                    loaded, scenario >>

\* File::create in serialize_tasks
RaceCreate(p) ==
    /\ procs[p].pc = "loaded"
    /\ file' = FileOf(<< >>)
    /\ procs' = [procs EXCEPT ![p].pc = "created"]
    /\ UNCHANGED << before, opt, outcome, message, stdout, saved, tasks, adds,
                    loaded, scenario >>

\* serde_json::to_writer in serialize_tasks, then exit
RaceWrite(p) ==
    /\ procs[p].pc = "created"
    /\ file' = FileOf(WriteAt(file.content, procs[p].pending))
    /\ procs' = [procs EXCEPT ![p].pc = "done"]
    /\ UNCHANGED << before, opt, outcome, message, stdout, saved, tasks, adds,
                    loaded, scenario >>

NextRace == \E p \in Procs : RaceLoad(p) \/ RaceCreate(p) \/ RaceWrite(p)

\* Storage when the two invocations start: missing, an empty array, or one task.
RaceInitTask == Task(MaxInstant, "call bob", PENDING)
InitRace ==
    /\ file \in {NoFile, FileOf(VecToJson(<< >>)),
                 FileOf(VecToJson(<< RaceInitTask >>))}
    /\ InitGhosts

SpecRace == InitRace /\ [][NextRace]_vars

\* ------------------------------------------------------------- properties
\* The records of storage file f, and the identifiers a load of f assigns.
Records(f) == Stored(Open(f).content)
Keys(f) == DOMAIN vec_to_map(Records(f))

\* Every store a load of f can produce (one per reading of the clocks).
Loads(f) == {deserialize_tasks(f, j) : j \in JitterChoices(Open(f).content)}

\* Sequences of records that agree in length and, position by position, in
\* description and status.
SameText(a, b) ==
    /\ Len(a) = Len(b)
    /\ \A i \in 1..Len(a) :
          a[i].description = b[i].description /\ a[i].status = b[i].status

Distinct(q) == \A i, k \in 1..Len(q) : i # k => q[i] # q[k]

\* Storage started empty, every mutation since was an add, and the
\* descriptions added are pairwise distinct.
OnlyDistinctAdds == adds.pure /\ Distinct(adds.seq)

ListedAll == opt.operation = "list" /\ opt.filter = "None"

\* C1 (as amended): after N adds with distinct descriptions on storage that
\* started empty, list with filter none prints the two header lines (title and
\* rule) and then exactly N task lines, carrying the identifiers 1..N and the
\* descriptions in the order they were added.
C1_ListAfterAdds ==
    (ListedAll /\ OnlyDistinctAdds) =>
        /\ outcome = "ok"
        /\ Len(stdout) = Len(adds.seq) + 2
        /\ stdout[1] = HeaderLine("None")
        /\ stdout[2] = RuleLine("None")
        /\ \A i \in 1..Len(adds.seq) :
              stdout[i + 2] = TaskLine(i, Task(0, adds.seq[i], PENDING))

\* C1 as stated: the listing consists of exactly N lines, line i carrying
\* identifier i and the i-th description added.
C1_ExactlyNLines ==
    (ListedAll /\ OnlyDistinctAdds) =>
        /\ Len(stdout) = Len(adds.seq)
        /\ \A i \in 1..Len(adds.seq) :
              stdout[i].id = i /\ stdout[i].description = adds.seq[i]

C1_Witness ==
    /\ ListedAll /\ OnlyDistinctAdds /\ outcome = "ok"
    /\ Len(adds.seq) = 2
    /\ Len(stdout) = 4

\* C2 as stated: when storage holds content that is not empty and is not a
\* well-formed array of task records, the run panics in load: no store is
\* built, nothing is saved and the file is left as it was.
C2_MalformedAborts ==
    (/\ opt.operation # "none"
     /\ before.exists /\ before.content # << >>
     /\ from_reader(before.content).kind # "ok") =>
        /\ outcome = "panic"
        /\ tasks = EmptyMap
        /\ ~saved
        /\ file = before

\* C3: complete on an identifier that is no key of the loaded store panics
\* with "Task not found" and writes nothing: the content of storage is what
\* it was before the run.
C3_CompleteAbsent ==
    (opt.operation = "complete" /\ opt.id \notin Keys(before)) =>
        /\ outcome = "panic"
        /\ message = "Task not found"
        /\ ~saved
        /\ file.content = before.content
        /\ Records(file) = Records(before)

C3_Witness ==
    /\ opt.operation = "complete" /\ opt.id \notin Keys(before)
    /\ Len(Records(before)) >= 2
    /\ outcome = "panic"

\* C4 (as amended): remove on an identifier that is no key of the loaded store
\* does not panic, and storage afterwards holds the same number of records with
\* the same descriptions and statuses in the same order; the stored creation
\* markers are converted through the clocks on load and on save and need not
\* come back as the same numbers.
C4_RemoveAbsent ==
    (opt.operation = "remove" /\ opt.id \notin Keys(before)) =>
        /\ outcome = "ok"
        /\ SameText(Records(file), Records(before))

\* C4 as stated: after such a remove storage holds the same records, in the
\* same order, as before.
C4_SameRecords ==
    (opt.operation = "remove" /\ opt.id \notin Keys(before)) =>
        /\ outcome = "ok"
        /\ Records(file) = Records(before)

C4_Witness ==
    /\ opt.operation = "remove" /\ opt.id \notin Keys(before)
    /\ Len(Records(before)) >= 2
    /\ outcome = "ok"
    /\ Records(file) = Records(before)

\* A step that is a second complete of the identifier the run before it
\* completed.
SecondComplete ==
    /\ opt.operation = "complete" /\ outcome = "ok"
    /\ opt'.operation = "complete" /\ opt'.id = opt.id

\* C5 (as amended): complete twice in a row on the same existing identifier:
\* the task is Completed after the first call and after the second, the second
\* call does not panic, and it leaves storage with the same number of records
\* with the same descriptions and statuses in the same order (the stored
\* creation markers need not come back as the same numbers).
C5_CompleteTwice ==
    [][SecondComplete =>
          /\ outcome' = "ok"
          /\ Records(file)[opt.id].status = COMPLETED
          /\ Records(file')[opt.id].status = COMPLETED
          /\ SameText(Records(file'), Records(file))]_vars

\* C5 as stated: the second call leaves the persisted store equal to the
\* store after the first call.
C5_SecondIsNoOp ==
    [][SecondComplete =>
          /\ outcome' = "ok"
          /\ Records(file)[opt.id].status = COMPLETED
          /\ Records(file')[opt.id].status = COMPLETED
          /\ Records(file') = Records(file)]_vars

\* a complete that ran on a task that was completed already
C5_Witness ==
    /\ opt.operation = "complete" /\ outcome = "ok"
    /\ opt.id \in Keys(before)
    /\ Records(before)[opt.id].status = COMPLETED
    /\ Records(file)[opt.id].status = COMPLETED
    /\ Len(Records(file)) >= 2

\* C6: saving the values of a store in ascending key order and loading the
\* result gives a store with the same number N of records, the same
\* description and status at each position, and the keys 1..N, whatever the
\* keys of the saved store were.
C6_RoundTrip ==
    saved =>
        \A l \in Loads(file) :
            /\ l.kind = "ok"
            /\ DOMAIN l.tasks = 1..Cardinality(DOMAIN tasks)
            /\ SameText(values(l.tasks), values(tasks))
            /\ \A i \in DOMAIN l.tasks : l.tasks[i] = values(l.tasks)[i]

\* a store was saved whose only key was 2: the task comes back at key 1
C6_Witness ==
    /\ saved
    /\ DOMAIN tasks = {2}
    /\ \A l \in Loads(file) : DOMAIN l.tasks = {1}

\* Where the record at position p of storage is after the last run: 0 when
\* that run removed it.
PositionAfter(p) ==
    IF opt.operation = "remove" /\ opt.id \in Keys(before)
    THEN (IF p < opt.id THEN p ELSE IF p = opt.id THEN 0 ELSE p - 1)
    ELSE p

\* C7: a task is Pending when added, and a task that is Completed before a run
\* is Completed after it, as long as the run did not remove it.
C7_StatusOnlyForward ==
    /\ (opt.operation = "add" /\ outcome = "ok") =>
          Records(file)[Len(Records(file))].status = PENDING
    /\ \A p \in 1..Len(Records(before)) :
          (Records(before)[p].status = COMPLETED /\ PositionAfter(p) # 0) =>
              /\ PositionAfter(p) <= Len(Records(file))
              /\ Records(file)[PositionAfter(p)].status = COMPLETED

\* a completed task went through a complete of its own identifier
C7_Witness ==
    /\ opt.operation = "complete" /\ outcome = "ok"
    /\ opt.id \in Keys(before)
    /\ Len(Records(before)) = 2
    /\ Records(before)[opt.id].status = COMPLETED
    /\ Records(file)[opt.id].status = COMPLETED
    /\ \E p \in Keys(before) : Records(before)[p].status = PENDING

\* C8: add inserts at the key (number of tasks + 1), which is no key of the
\* loaded store and is above all of its keys: the records stored before are
\* all still there, in place, and the new record is the last one.
C8_AddAppends ==
    (opt.operation = "add" /\ outcome = "ok") =>
        LET n == Len(Records(before)) IN
        /\ Keys(before) = 1..n
        /\ DOMAIN tasks = 1..(n + 1)
        /\ tasks[n + 1].description = opt.description
        /\ Len(Records(file)) = n + 1
        /\ SameText(SubSeq(Records(file), 1, n), Records(before))
        /\ Records(file)[n + 1].description = opt.description
        /\ Records(file)[n + 1].status = PENDING

\* an add on storage that holds a completed record: the new one is second
C8_Witness ==
    /\ opt.operation = "add" /\ outcome = "ok"
    /\ Len(Records(before)) = 1
    /\ Records(before)[1].status = COMPLETED
    /\ Len(Records(file)) = 2
    /\ Records(file)[1].status = COMPLETED

\* C9: after remove of a key k of a store of N tasks, the next load gives N-1
\* tasks: the task that was at j < k is at j, the task that was at j > k is at
\* j-1, each with its description and status.
C9_RemoveShifts ==
    (opt.operation = "remove" /\ opt.id \in Keys(before)) =>
        LET n == Len(Records(before))
            k == opt.id
        IN /\ outcome = "ok"
           /\ \A l \in Loads(file) :
                 /\ l.kind = "ok"
                 /\ DOMAIN l.tasks = 1..(n - 1)
                 /\ \A i \in 1..n :
                       LET was == Records(before)[i]
                           at == IF i < k THEN i ELSE i - 1
                       IN i # k =>
                            /\ l.tasks[at].description = was.description
                            /\ l.tasks[at].status = was.status

\* the first of two different tasks was removed: the second is now task 1
C9_Witness ==
    /\ opt.operation = "remove" /\ outcome = "ok"
    /\ Len(Records(before)) = 2
    /\ opt.id = 1
    /\ Records(before)[1].description # Records(before)[2].description
    /\ Len(Records(file)) = 1
    /\ Records(file)[1].description = Records(before)[2].description

\* Storage that does not exist, or exists and is empty.
EmptyStorage(f) == ~f.exists \/ f.content = << >>

\* C10: a run on storage that does not exist or is empty does not fail in
\* load and works on the empty store; an add then leaves exactly one record in
\* storage, the added task, which the next load gives identifier 1.
C10_EmptyStorage ==
    (opt.operation # "none" /\ EmptyStorage(before)) =>
        /\ message # "An error occurred"
        /\ file.exists
        /\ opt.operation = "list" =>
              outcome = "ok" /\ tasks = EmptyMap /\ Len(stdout) = 2
        /\ opt.operation = "complete" =>
              outcome = "panic" /\ message = "Task not found" /\ tasks = EmptyMap
        /\ opt.operation = "remove" =>
              outcome = "ok" /\ tasks = EmptyMap /\ Records(file) = << >>
        /\ opt.operation = "add" =>
              /\ outcome = "ok"
              /\ Len(Records(file)) = 1
              /\ Records(file)[1].description = opt.description
              /\ Records(file)[1].status = PENDING
              /\ \A l \in Loads(file) : l.kind = "ok" /\ DOMAIN l.tasks = {1}

\* the first add on storage that did not exist
C10_Witness ==
    /\ opt.operation = "add" /\ outcome = "ok"
    /\ ~before.exists
    /\ Len(Records(file)) = 1

\* The task lines of the last run: what it printed after the two header lines.
Listed == SubSeq(stdout, 3, Len(stdout))

\* Whether a listing with this filter is to show a task of this status.
Included(filter, status) ==
    \/ filter = "None"
    \/ filter = "Pending" /\ status = PENDING
    \/ filter = "Completed" /\ status = COMPLETED

\* C11: list prints its task lines in ascending identifier order, one for
\* every task of the loaded store that the filter includes (Pending: status
\* Pending, Completed: status Completed, none: every task) and none for any
\* other; a line carries the task's identifier in the loaded store.
C11_ListFilters ==
    (opt.operation = "list" /\ outcome = "ok") =>
        /\ Len(stdout) >= 2
        /\ \A a, b \in 1..Len(Listed) : a < b => Listed[a].id < Listed[b].id
        /\ {Listed[a].id : a \in 1..Len(Listed)} =
              {k \in DOMAIN loaded : Included(opt.filter, loaded[k].status)}
        /\ \A a \in 1..Len(Listed) :
              Listed[a] = TaskLine(Listed[a].id, loaded[Listed[a].id])

\* only the second of two tasks is pending: its line carries identifier 2
C11_Witness ==
    /\ opt.operation = "list" /\ opt.filter = "Pending" /\ outcome = "ok"
    /\ DOMAIN loaded = {1, 2}
    /\ loaded[1].status = COMPLETED /\ loaded[2].status = PENDING
    /\ Len(Listed) = 1
    /\ Listed[1].id = 2

\* C12: a list run does not save, and the content of storage, and so the
\* sequence of records in it, is after the run what it was before.
C12_ListReadOnly ==
    opt.operation = "list" =>
        /\ ~saved
        /\ file.content = before.content
        /\ from_reader(file.content) = from_reader(before.content)

\* a listing of storage that holds two records with different stored times
C12_Witness ==
    /\ opt.operation = "list" /\ outcome = "ok"
    /\ Len(Records(before)) = 2
    /\ Records(before)[1].time # Records(before)[2].time
    /\ Len(Listed) = 2
    /\ file = before

\* The stores the next run can load all hold exactly these (description,
\* status) pairs, in this order, under the identifiers 1, 2, ...
NextLoadIs(texts) ==
    \A l \in Loads(file) :
        /\ l.kind = "ok"
        /\ DOMAIN l.tasks = 1..Len(texts)
        /\ \A i \in 1..Len(texts) :
              /\ l.tasks[i].description = texts[i][1]
              /\ l.tasks[i].status = texts[i][2]

ScenarioStores ==
    /\ scenario = 1 => NextLoadIs(<< << "buy milk", PENDING >> >>)
    /\ scenario = 2 => NextLoadIs(<< << "buy milk", PENDING >>,
                                     << "write spec", PENDING >> >>)
    /\ scenario = 3 => NextLoadIs(<< << "buy milk", COMPLETED >>,
                                     << "write spec", PENDING >> >>)
    /\ scenario = 4 => /\ DOMAIN tasks = {2}
                       /\ NextLoadIs(<< << "write spec", PENDING >> >>)
    /\ scenario = 5 => /\ outcome = "ok"
                       /\ DOMAIN loaded = {1}
                       /\ NextLoadIs(<< << "write spec", PENDING >> >>)

\* C13 (as amended): from empty storage, add "buy milk", add "write spec",
\* complete 1, remove 1: the next load holds exactly one task, "write spec",
\* Pending, with identifier 1, and list with filter pending prints the two
\* header lines and then exactly one task line, `1 - write spec [ ]`.
C13_Scenario ==
    /\ ScenarioStores
    /\ scenario = 5 =>
          stdout = << HeaderLine("Pending"), RuleLine("Pending"),
                      Line("{} - {} [{}]", 1, "write spec", " ") >>

\* C13 as stated: the listing at the end of the scenario is exactly one line,
\* `1 - write spec [ ]`.
C13_ExactlyOneLine ==
    /\ ScenarioStores
    /\ scenario = 5 => stdout = << Line("{} - {} [{}]", 1, "write spec", " ") >>

C13_Witness ==
    /\ scenario = 5
    /\ opt = Opt("list", 0, "", "Pending")
    /\ Len(Listed) = 1

\* C14: the store a run loads has the identifiers 1..N, N being the number of
\* records in storage, and holds record i of storage at identifier i; so has
\* every store that the next run can load from what this run left.
C14_DenseIdentifiers ==
    /\ opt.operation # "none" =>
          /\ DOMAIN loaded = 1..Len(Records(before))
          /\ \A i \in DOMAIN loaded :
                /\ loaded[i].description = Records(before)[i].description
                /\ loaded[i].status = Records(before)[i].status
    /\ \A l \in Loads(file) :
          /\ l.kind = "ok"
          /\ DOMAIN l.tasks = 1..Len(Records(file))
          /\ \A i \in DOMAIN l.tasks :
                /\ l.tasks[i].description = Records(file)[i].description
                /\ l.tasks[i].status = Records(file)[i].status

\* a run that loaded two different tasks
C14_Witness ==
    /\ opt.operation = "complete"
    /\ DOMAIN loaded = {1, 2}
    /\ loaded[1].description # loaded[2].description
    /\ loaded[1].description = Records(before)[1].description

\* The position of key k among the keys of map, in ascending order.
Rank(map, k) == Cardinality({m \in DOMAIN map : m <= k})

\* C15: an add, remove or complete that ends without a panic has saved, and
\* storage then is a well-formed array holding exactly the records of the
\* run's final store, one per key, in ascending key order.
C15_WholeStoreSaved ==
    (opt.operation \in {"add", "remove", "complete"} /\ outcome = "ok") =>
        /\ saved
        /\ from_reader(file.content).kind = "ok"
        /\ Len(Records(file)) = Cardinality(DOMAIN tasks)
        /\ \A k \in DOMAIN tasks :
              Records(file)[Rank(tasks, k)] =
                  [time |-> InstantToMillis(tasks[k].time),
                   description |-> tasks[k].description,
                   status |-> tasks[k].status]

\* a remove that shortened storage from two records to one
C15_Witness ==
    /\ opt.operation = "remove" /\ outcome = "ok" /\ saved
    /\ Len(Records(before)) = 2
    /\ Cardinality(DOMAIN tasks) = 1
    /\ Len(Records(file)) = 1

CompletedPresent == opt.operation = "complete" /\ opt.id \in DOMAIN loaded

\* What complete does to the store in memory and to the text of storage.
CompleteFrame ==
    /\ outcome = "ok"
    /\ DOMAIN tasks = DOMAIN loaded
    /\ tasks[opt.id] = [loaded[opt.id] EXCEPT !.status = COMPLETED]
    /\ \A k \in DOMAIN loaded \ {opt.id} : tasks[k] = loaded[k]
    /\ Len(Records(file)) = Len(Records(before))
    /\ \A i \in 1..Len(Records(before)) :
          /\ Records(file)[i].description = Records(before)[i].description
          /\ i # opt.id => Records(file)[i].status = Records(before)[i].status
    /\ Records(file)[opt.id].status = COMPLETED

\* C16 (as amended): complete on an identifier present in the store changes, in
\* the store in memory, only that task's status (identifier, description and
\* creation marker stay, every other task is untouched); in storage the number
\* and order of records and every description and every other status are
\* unchanged, while the stored creation markers need not come back as the same
\* numbers.
C16_CompleteFrame == CompletedPresent => CompleteFrame

\* C16 as stated, for the records of storage: only the status of the completed
\* task differs between the records before and the records after.
C16_OnlyStatusChanges ==
    CompletedPresent =>
        /\ CompleteFrame
        /\ \A i \in 1..Len(Records(before)) :
              Records(file)[i] =
                  IF i = opt.id
                  THEN [Records(before)[i] EXCEPT !.status = COMPLETED]
                  ELSE Records(before)[i]

\* the second of two pending tasks was completed
C16_Witness ==
    /\ CompletedPresent /\ outcome = "ok"
    /\ opt.id = 2
    /\ Len(Records(before)) = 2
    /\ Records(before)[1].status = PENDING /\ Records(before)[2].status = PENDING
    /\ Records(file)[1].status = PENDING /\ Records(file)[2].status = COMPLETED

\* Description and status of each record, in order.
Texts(recs) ==
    [i \in 1..Len(recs) |-> << recs[i].description, recs[i].status >>]
Descs(recs) == [i \in 1..Len(recs) |-> recs[i].description]

\* q without its element at position k
RemoveAt(q, k) == SubSeq(q, 1, k - 1) \o SubSeq(q, k + 1, Len(q))

\* C18: no run reorders storage: add appends one record at the end, remove of
\* a present identifier deletes the record at that position and nothing else,
\* and every other run leaves each record in its place.
C18_OrderKept ==
    LET was == Records(before)
        now == Records(file)
    IN CASE opt.operation = "add" /\ outcome = "ok" ->
                Texts(now) = Append(Texts(was), << opt.description, PENDING >>)
         [] opt.operation = "remove" /\ opt.id \in Keys(before) ->
                Texts(now) = RemoveAt(Texts(was), opt.id)
         [] OTHER -> Descs(now) = Descs(was)

\* an add after which the older, different task is still first
C18_Witness ==
    /\ opt.operation = "add" /\ outcome = "ok"
    /\ Len(Records(before)) = 1
    /\ Len(Records(file)) = 2
    /\ Records(file)[1].description = Records(before)[1].description
    /\ Records(file)[2].description # Records(file)[1].description

LineSet(store, filter) ==
    {TaskLines(store, filter)[a] : a \in 1..Len(TaskLines(store, filter))}

\* C19: every record in storage has status Pending or Completed, and for every
\* store loaded from it the lines listed with filter Pending and those listed
\* with filter Completed are disjoint and together are the lines listed with
\* filter none.
C19_StatusPartition ==
    /\ \A i \in 1..Len(Records(file)) :
          Records(file)[i].status \in {PENDING, COMPLETED}
    /\ \A l \in Loads(file) :
          /\ LineSet(l.tasks, "Pending") \cap LineSet(l.tasks, "Completed") = {}
          /\ LineSet(l.tasks, "Pending") \cup LineSet(l.tasks, "Completed")
                = LineSet(l.tasks, "None")
          /\ Len(TaskLines(l.tasks, "None")) = Len(Records(file))

\* storage holds a completed and a pending task
C19_Witness ==
    /\ Len(Records(file)) = 2
    /\ Records(file)[1].status = COMPLETED
    /\ Records(file)[2].status = PENDING
    /\ \A l \in Loads(file) : Cardinality(LineSet(l.tasks, "Pending")) = 1

\* Both invocations were adds and have ended without a panic.
BothAdded == \A p \in Procs : procs[p].pc = "done" /\ procs[p].opt.operation = "add"

\* One of the invocations loaded exactly what the other had finished writing.
RanInTurn == \E p, q \in Procs : p # q /\ procs[q].base = procs[p].pending

\* Both invocations loaded the storage as it was at the start.
BothLoadedFirst == \A p \in Procs : procs[p].base = Open(before).content

\* C17: two adds that both end without error leave both new records in
\* storage when one loaded what the other had written.  When both load before
\* either saves, storage ends up as exactly what one of the two wrote: the
\* records of the start and one new record, the other add being lost.  When
\* one loads between the other's truncation and its write, storage ends up
\* with at most one more record than at the start.  So in every interleaving
\* the add of an invocation that ended without error is missing.
C17_RaceLosesUpdate ==
    BothAdded =>
        LET n == Len(Records(before)) IN
        IF RanInTurn
        THEN from_reader(file.content).kind = "ok" /\ Len(Records(file)) = n + 2
        ELSE IF BothLoadedFirst
        THEN /\ \E p \in Procs : file.content = procs[p].pending
             /\ from_reader(file.content).kind = "ok"
             /\ Len(Records(file)) = n + 1
        ELSE Len(Records(file)) <= n + 1

\* both loaded the one-record storage before either saved; both ended without
\* error; storage is well-formed, and the record the first one added is not in it
C17_Witness ==
    /\ BothAdded /\ ~RanInTurn
    /\ Len(Records(before)) = 1
    /\ BothLoadedFirst
    /\ procs[1].opt.description # procs[2].opt.description
    /\ from_reader(file.content).kind = "ok"
    /\ Len(Records(file)) = 2
    /\ \A i \in 1..Len(Records(file)) :
          Records(file)[i].description # procs[1].opt.description

====
